---- MODULE Spec2Model ----
(***************************************************************************)
(* The app entity of aiidalab (src/aiidalab/__main__.py): a registry       *)
(* record joined with a git working directory, the install / uninstall     *)
(* protocol on that directory, and the command surface that drives it.     *)
(*                                                                         *)
(* The working directory is the only mutable state of the program; the     *)
(* registry is chosen at start and read from then on.  `git clone`, the    *)
(* host's package inventory and the people editing the working tree are    *)
(* the environment.                                                        *)
(*                                                                         *)
(* Beside the core stand three pieces of the presentation layer, each with *)
(* a specification of its own: the git-managed app behind the app manager  *)
(* widget (src/aiidalab/app.py), the timer threads of the version selector *)
(* (src/aiidalab/widgets.py) and the walk that collects the data files of  *)
(* an app (src/aiidalab/core.py).                                          *)
(***************************************************************************)
EXTENDS Integers, Sequences, FiniteSets, TLC

VARIABLES
    registry,   \* load_app_registry(): [apps |-> the registry entries, at most one per name]
    dir,        \* the working directory AIIDALAB_APPS/<name>: [exists, rev, dirty]
    pc,         \* per process: "idle", or "clone" between the two steps of install()
    ver,        \* per process: the `version` local of install() (the ref to clone)
    last,       \* the last call: its inputs, the directory before it, its outcome and output
    gitapp,     \* GitManagedAiidaLabApp: its directory, its traits and the last assignment
    selector,   \* VersionSelectorWidget: info, _clear_timer, the clock and the timer threads
    walk        \* _find_app_data_files: the tree walked, include_hidden and the files yielded

core == <<registry, dir, pc, ver, last>>
presentation == <<gitapp, selector, walk>>
vars == <<registry, dir, pc, ver, last, gitapp, selector, walk>>

(***************************************************************************)
(* Bounds of the model.                                                    *)
(***************************************************************************)
NumRevs == 3        \* revisions a working tree can be at: 1..NumRevs
MaxReleases == 2    \* releases in the registry entry of the app
NumProcs == 2       \* processes (command invocations / callers of the entity)
MaxReqs == 2        \* requirements listed under one eco-system key of a release
MaxChanges == 2     \* version changes made in the selector, one timer thread each
MaxTime == 7        \* the clock of the selector runs from 0 to MaxTime
MaxDirs == 3        \* directories listed in the root of a walked tree

Revs == 1..NumRevs
Procs == 1..NumProcs

(***************************************************************************)
(* Values.                                                                 *)
(***************************************************************************)
None == "None"
NOT_INSTALLED == "AppVersion.NOT_INSTALLED"
UNKNOWN == "AppVersion.UNKNOWN"

AppName == "app"
PY == "python-requirements"
JUPYTER == "jupyter-requirements"

Absent == [exists |-> FALSE, rev |-> 0, dirty |-> FALSE]
Checkout(r) == [exists |-> TRUE, rev |-> r, dirty |-> FALSE]
DirStates == {Absent} \cup [exists : {TRUE}, rev : Revs, dirty : BOOLEAN]

Max(a, b) == IF a >= b THEN a ELSE b

(***************************************************************************)
(* packaging.version.parse / str(Version): the release segments of a       *)
(* label, and the normalised text of a parsed version.  A leading "v" is   *)
(* accepted by parse and dropped by str.                                   *)
(***************************************************************************)
parse(s) ==
    CASE s = "1.0"    -> <<1, 0>>
      [] s = "1.0.0"  -> <<1, 0, 0>>
      [] s = "1.1.0"  -> <<1, 1, 0>>
      [] s = "v1.1.0" -> <<1, 1, 0>>
      [] s = "1.9.0"  -> <<1, 9, 0>>
      [] s = "1.10.0" -> <<1, 10, 0>>
      [] s = "2.0"    -> <<2, 0>>
      [] s = "1.1"    -> <<1, 1>>
      [] s = "1.10"   -> <<1, 10>>
      [] s = "1.20"   -> <<1, 20>>
      [] s = "1.21"   -> <<1, 21>>

NormalForms ==
    {"1.0", "1.0.0", "1.1.0", "1.9.0", "1.10.0", "2.0", "1.1", "1.10", "1.20", "1.21"}

str(v) == CHOOSE s \in NormalForms : parse(s) = v

\* Version._key: release segments compared as numbers, trailing zeros not counting.
Seg(v, i) == IF i <= Len(v) THEN v[i] ELSE 0

VLess(a, b) ==
    LET n == Max(Len(a), Len(b))
        diff == {i \in 1..n : Seg(a, i) # Seg(b, i)}
    IN  /\ diff # {}
        /\ LET k == CHOOSE i \in diff : \A j \in diff : i <= j
           IN  Seg(a, k) < Seg(b, k)

VEq(a, b) == ~VLess(a, b) /\ ~VLess(b, a)

\* `version in specifier`: every clause of the SpecifierSet admits the version.
ClauseHolds(v, c) ==
    CASE c.op = ">=" -> ~VLess(v, parse(c.v))
      [] c.op = "<"  -> VLess(v, parse(c.v))
      [] c.op = "==" -> VEq(v, parse(c.v))

Contains(specifier, v) == \A i \in 1..Len(specifier) : ClauseHolds(v, specifier[i])

\* packaging.requirements.Requirement(text): name and specifier of a requirement.
Requirement(s) ==
    CASE s = "app"         -> [name |-> "app", specifier |-> <<>>]
      [] s = "app>=1.1"    -> [name |-> "app", specifier |-> <<[op |-> ">=", v |-> "1.1"]>>]
      [] s = "app==1.0"    -> [name |-> "app", specifier |-> <<[op |-> "==", v |-> "1.0"]>>]
      [] s = "app<1.0"     -> [name |-> "app", specifier |-> <<[op |-> "<", v |-> "1.0"]>>]
      [] s = "app>=1.0,<1.10" ->
            [name |-> "app", specifier |-> <<[op |-> ">=", v |-> "1.0"], [op |-> "<", v |-> "1.10"]>>]
      [] s = "numpy>=2.0"  -> [name |-> "numpy", specifier |-> <<[op |-> ">=", v |-> "2.0"]>>]
      [] s = "numpy>=1.20" -> [name |-> "numpy", specifier |-> <<[op |-> ">=", v |-> "1.20"]>>]
      [] s = "scipy>=2.0"  -> [name |-> "scipy", specifier |-> <<[op |-> ">=", v |-> "2.0"]>>]

AppRequirements == {"app", "app>=1.1", "app==1.0", "app<1.0", "app>=1.0,<1.10"}

(***************************************************************************)
(* The host's package inventory and the registry entries the app can have. *)
(***************************************************************************)
find_installed_packages == <<[name |-> "numpy", version |-> "1.21"]>>

fulfills(p, requirement) ==
    /\ p.name = requirement.name
    /\ Contains(requirement.specifier, parse(p.version))

DepsMet == <<[key |-> PY, deps |-> <<"numpy>=1.20">>]>>
DepsUnmet == <<[key |-> PY, deps |-> <<"scipy>=2.0">>]>>
DepsUnknownFirst == <<[key |-> JUPYTER, deps |-> <<>>], [key |-> PY, deps |-> <<"scipy>=2.0">>]>>
DepsUnknownLast == <<[key |-> PY, deps |-> <<"scipy>=2.0">>], [key |-> JUPYTER, deps |-> <<>>]>>

\* Requirement lists of a release: every list of at most MaxReqs requirements,
\* repetitions included.
RequirementPool == {"numpy>=1.20", "scipy>=2.0", "numpy>=2.0"}

RequirementLists == UNION {[1..n -> RequirementPool] : n \in 0..MaxReqs}

\* Dependency maps: the items of a dict in insertion order, keys distinct.
DependencyMaps ==
    { m \in UNION {[1..n -> [key : {PY, JUPYTER}, deps : RequirementLists]] :
                      n \in 0..Cardinality({PY, JUPYTER})} :
        \A i, j \in 1..Len(m) : i # j => m[i].key # m[j].key }

\* Candidate releases: version label, stored commit, dependency map (in insertion order).
ReleasePool ==
    { [version |-> "1.0",    commit |-> 1, dependencies |-> DepsMet],
      [version |-> "1.0.0",  commit |-> 1, dependencies |-> DepsUnmet],
      [version |-> "1.9.0",  commit |-> 2, dependencies |-> DepsMet],
      [version |-> "1.10.0", commit |-> 2, dependencies |-> DepsUnmet],
      [version |-> "v1.1.0", commit |-> 2, dependencies |-> DepsUnknownFirst],
      [version |-> "2.0",    commit |-> 1, dependencies |-> DepsUnknownLast] }

\* The releases mapping as the sequence of its items, keys distinct.
ReleaseMaps ==
    { rs \in UNION {[1..n -> ReleasePool] : n \in 0..MaxReleases} :
        \A i, j \in 1..Len(rs) : i # j => rs[i].version # rs[j].version }

RegistryEntry(rs) ==
    [name |-> AppName, git_url |-> "https://host/app.git#subdir",
     metadata |-> "metadata", categories |-> <<"utilities">>, releases |-> rs]

Registries == {[apps |-> {}]} \cup {[apps |-> {RegistryEntry(rs)}] : rs \in ReleaseMaps}

\* Registries of one app with one release of the pool.
ConcurrentRegistries == {[apps |-> {RegistryEntry(<<r>>)}] : r \in ReleasePool}

\* Registries of one app with one release, over every dependency map.
CompatRegistries ==
    { [apps |-> {RegistryEntry(<<[version |-> "1.0", commit |-> 1, dependencies |-> m]>>)}] :
        m \in DependencyMaps }

(***************************************************************************)
(* AiidaLabApp: the entity built by from_name / from_registry.             *)
(***************************************************************************)
InRegistry(reg, name) == \E e \in reg.apps : e.name = name

\* from_name: registry["apps"][name], a KeyError when InRegistry is false.
from_name(reg, name) == CHOOSE e \in reg.apps : e.name = name

Keys(releases) == [i \in 1..Len(releases) |-> releases[i].version]

Lookup(releases, version) ==
    releases[CHOOSE i \in 1..Len(releases) : releases[i].version = version]

\* _repo: a Repo when the path exists, None otherwise.
HasRepo(d) == d.exists

\* GitManagedAppRepo.head() and .dirty() of the repository at the path.
head(d) == d.rev

RepoDirty(d) == d.dirty

\* The reverse mapping built so that the first item with a commit keeps it.
RECURSIVE versions_by_commit_first(_)
versions_by_commit_first(releases) ==
    IF releases = <<>> THEN [c \in {} |-> None]
    ELSE LET n == Len(releases)
             before == versions_by_commit_first(SubSeq(releases, 1, n - 1))
         IN  [c \in DOMAIN before \cup {releases[n].commit} |->
                 IF c \in DOMAIN before THEN before[c] ELSE releases[n].version]

\* {r["commit"]: k for k, r in releases.items()}: a later item replaces an earlier
\* one with the same commit.
RECURSIVE versions_by_commit(_)
versions_by_commit(releases) ==
    IF releases = <<>> THEN [c \in {} |-> None]
    ELSE LET n == Len(releases)
             before == versions_by_commit(SubSeq(releases, 1, n - 1))
         IN  [c \in DOMAIN before \cup {releases[n].commit} |->
                 IF c = releases[n].commit THEN releases[n].version ELSE before[c]]

\* installed_version() with NOT_INSTALLED as the default of the lookup.
installed_version_default(app, d) ==
    IF HasRepo(d)
    THEN LET byCommit == versions_by_commit(app.releases)
         IN  IF head(d) \in DOMAIN byCommit THEN byCommit[head(d)] ELSE NOT_INSTALLED
    ELSE NOT_INSTALLED

\* installed_version() looking up the head as bytes: no commit ever equals it.
installed_version_undecoded(app, d) == IF HasRepo(d) THEN UNKNOWN ELSE NOT_INSTALLED

installed_version(app, d) ==
    IF HasRepo(d)
    THEN LET byCommit == versions_by_commit(app.releases)
         IN  IF head(d) \in DOMAIN byCommit THEN byCommit[head(d)] ELSE UNKNOWN
    ELSE NOT_INSTALLED

\* dirty(): None (falsy) when there is no repository.
dirty(d) == IF HasRepo(d) THEN RepoDirty(d) ELSE FALSE

\* A descending sort that puts an element before the elements equal to it.
RECURSIVE InsertDesc_unstable(_, _)
InsertDesc_unstable(x, sorted) ==
    IF sorted = <<>> THEN <<x>>
    ELSE IF ~VLess(parse(x), parse(Head(sorted))) THEN <<x>> \o sorted
    ELSE <<Head(sorted)>> \o InsertDesc_unstable(x, Tail(sorted))

\* list.sort(key=parse, reverse=True): stable, so equal versions keep their order.
RECURSIVE InsertDesc(_, _)
InsertDesc(x, sorted) ==
    IF sorted = <<>> THEN <<x>>
    ELSE IF VLess(parse(Head(sorted)), parse(x)) THEN <<x>> \o sorted
    ELSE <<Head(sorted)>> \o InsertDesc(x, Tail(sorted))

RECURSIVE SortDesc(_)
SortDesc(s) ==
    IF s = <<>> THEN <<>>
    ELSE InsertDesc(s[Len(s)], SortDesc(SubSeq(s, 1, Len(s) - 1)))

\* find_matching_release() without the test of the specifier: every key, sorted.
find_matching_release_unfiltered(app, specifier) == SortDesc(Keys(app.releases))

\* find_matching_release() without the sort: the matching keys in mapping order.
find_matching_release_unsorted(app, specifier) ==
    LET Matches(version) == Contains(specifier, parse(version))
    IN  SelectSeq(Keys(app.releases), Matches)

find_matching_release(app, specifier) ==
    LET Matches(version) == Contains(specifier, parse(version))
    IN  SortDesc(SelectSeq(Keys(app.releases), Matches))

\* sorted(map(parse, releases)): ascending and stable, over the parsed versions.
RECURSIVE InsertAsc(_, _)
InsertAsc(x, sorted) ==
    IF sorted = <<>> THEN <<x>>
    ELSE IF VLess(x, Head(sorted)) THEN <<x>> \o sorted
    ELSE <<Head(sorted)>> \o InsertAsc(x, Tail(sorted))

RECURSIVE SortAsc(_)
SortAsc(s) ==
    IF s = <<>> THEN <<>>
    ELSE InsertAsc(s[Len(s)], SortAsc(SubSeq(s, 1, Len(s) - 1)))

\* map(parse, releases) without sorted(): the parsed versions in mapping order.
SortedParsed_unsorted(releases) == [i \in 1..Len(releases) |-> parse(releases[i].version)]

SortedParsed(releases) == SortAsc([i \in 1..Len(releases) |-> parse(releases[i].version)])

\* _find_incompatibilities_python with `return` for `yield`: it stops at the
\* first requirement no installed package fulfils.
_find_incompatibilities_python_first(requirements) ==
    LET packages == find_installed_packages
        Unmet(r) == ~\E i \in 1..Len(packages) : fulfills(packages[i], Requirement(r))
        unmet == SelectSeq(requirements, Unmet)
    IN  IF unmet = <<>> THEN <<>> ELSE <<Head(unmet)>>

\* _find_incompatibilities_python: the requirements no installed package fulfils.
_find_incompatibilities_python(requirements) ==
    LET packages == find_installed_packages
        Unmet(r) == ~\E i \in 1..Len(packages) : fulfills(packages[i], Requirement(r))
    IN  SelectSeq(requirements, Unmet)

\* is_compatible: not any(_find_incompatibilities(version)).  The generator is
\* consumed up to its first item: "False" at the first unmet requirement,
\* "ValueError" when an unknown eco-system key is met before that, "True" when
\* the dependency map is exhausted.
RECURSIVE AnyIncompatibility(_)
AnyIncompatibility(items) ==
    IF items = <<>> THEN "True"
    ELSE IF Head(items).key = PY
         THEN IF _find_incompatibilities_python(Head(items).deps) # <<>>
              THEN "False"
              ELSE AnyIncompatibility(Tail(items))
         ELSE "ValueError"

\* is_compatible() without its `not`.
is_compatible_any(app, version) ==
    LET found == AnyIncompatibility(Lookup(app.releases, version).dependencies)
    IN  CASE found = "True" -> "False"
          [] found = "False" -> "True"
          [] OTHER -> found

is_compatible(app, version) == AnyIncompatibility(Lookup(app.releases, version).dependencies)

\* urllib.parse.urldefrag(url).url: the url without its '#fragment'.
urldefrag(url) ==
    CASE url = "https://host/app.git#subdir" -> "https://host/app.git"
      [] OTHER -> url

\* shutil.rmtree(path): the tree is removed; a path that does not exist is an error.
rmtree(d) ==
    IF d.exists THEN [raised |-> FALSE, dir |-> Absent] ELSE [raised |-> TRUE, dir |-> d]

\* uninstall() that removes nothing.
uninstall_skipped(d) == [raised |-> FALSE, dir |-> d]

\* uninstall() without the test of the path.
uninstall_unguarded(d) == rmtree(d)

\* uninstall(): shutil.rmtree(self.path) if the path exists.
uninstall(d) == IF d.exists THEN rmtree(d) ELSE [raised |-> FALSE, dir |-> d]

\* A clone that takes over a destination that exists.
_git_clone_overwrite(d, r) ==
    IF r = 0 THEN [ok |-> FALSE, dir |-> Absent] ELSE [ok |-> TRUE, dir |-> Checkout(r)]

\* `git clone --depth=1 --branch=<branch> <url> <path>`.  git refuses a destination
\* that exists and is not empty and leaves it alone; otherwise the remote decides:
\* the branch resolves to a revision r and the path becomes a clean checkout of it,
\* or the clone fails (r = 0) and git removes what it created.
_git_clone(d, r) ==
    IF d.exists THEN [ok |-> FALSE, dir |-> d]
    ELSE IF r = 0 THEN [ok |-> FALSE, dir |-> Absent]
    ELSE [ok |-> TRUE, dir |-> Checkout(r)]

(***************************************************************************)
(* The record of a call.                                                   *)
(***************************************************************************)
NoCall ==
    [op |-> "none", arg |-> "", opts |-> {}, pre |-> Absent, outcome |-> "ok",
     out |-> <<>>, url |-> "", ref |-> "", resolved |-> 0]

Call(op, arg, opts) == [NoCall EXCEPT !.op = op, !.arg = arg, !.opts = opts, !.pre = dir]

Returns(call, out) == [call EXCEPT !.outcome = "ok", !.out = out]
Raises(call, error) == [call EXCEPT !.outcome = error]

\* No call is in progress and the result of the last one has been taken.
Ready == (\A p \in Procs : pc[p] = "idle") /\ last.op = "none"

\* The presentation layer is not in use: no app widget, no selector, no walk.
NoGitApp == [op |-> "none"]
NoSelector == [info |-> ""]
NoWalk == [out |-> <<>>]

PresentationIdle == gitapp = NoGitApp /\ selector = NoSelector /\ walk = NoWalk

\* The core is not in use: an empty registry and no working directory.
CoreIdle ==
    /\ registry = [apps |-> {}]
    /\ dir = Absent
    /\ pc = [p \in Procs |-> "idle"]
    /\ ver = [p \in Procs |-> None]
    /\ last = NoCall

TypeOK ==
    /\ registry \in Registries
    /\ dir \in DirStates
    /\ pc \in [Procs -> {"idle", "clone"}]
    /\ DOMAIN ver = Procs
    /\ last.pre \in DirStates
    /\ last.outcome \in {"ok", "running", "ValueError", "RuntimeError", "ClickException",
                         "FileNotFoundError"}

Init ==
    /\ registry \in Registries
    /\ dir = Absent
    /\ pc = [p \in Procs |-> "idle"]
    /\ ver = [p \in Procs |-> None]
    /\ last = NoCall
    /\ PresentationIdle

(***************************************************************************)
(* AiidaLabApp.install(version) and AiidaLabApp.uninstall().               *)
(***************************************************************************)
\* sorted() over the releases mapping that sorts the mapping itself.
releases_sorted_in_place(releases) ==
    LET n == Len(releases)
    IN  CHOOSE s \in [1..n -> {releases[i] : i \in 1..n}] :
            /\ \A i \in 1..n : \E j \in 1..n : s[j] = releases[i]
            /\ \A i, j \in 1..n :
                  i < j => ~VLess(parse(s[j].version), parse(s[i].version))

\* self.releases after list(sorted(map(parse, self.releases))): map and sorted
\* build new objects and only read the mapping.
releases_after_sorted(releases) == releases

\* install(), up to the clone: the choice of the latest version when none is
\* given, then the removal of the working directory.  The entity holds the
\* releases mapping of the registry itself, not a copy.
InstallRemove(p, app, call, version) ==
    /\ UNCHANGED presentation
    /\ registry' =
          IF version = None
          THEN [apps |-> {IF e.name = app.name
                          THEN [e EXCEPT !.releases = releases_after_sorted(@)] ELSE e :
                          e \in registry.apps}]
          ELSE registry
    /\ IF version = None /\ app.releases = <<>>
       THEN /\ last' = Raises(call, "ValueError")
            /\ UNCHANGED <<dir, pc, ver>>
       ELSE LET sorted == SortedParsed(app.releases)
                v == IF version = None THEN str(sorted[Len(sorted)]) ELSE version
                removed == uninstall(dir)
            IN  IF removed.raised
                THEN /\ last' = Raises(call, "FileNotFoundError")
                     /\ UNCHANGED <<dir, pc, ver>>
                ELSE /\ dir' = removed.dir
                     /\ pc' = [pc EXCEPT ![p] = "clone"]
                     /\ ver' = [ver EXCEPT ![p] = v]
                     /\ last' = [call EXCEPT !.outcome = "running"]

Install(p, version) ==
    /\ pc[p] = "idle"
    /\ InRegistry(registry, AppName)
    /\ InstallRemove(p, from_name(registry, AppName), Call("install", version, {}), version)

\* install(), the clone: _git_clone(urldefrag(git_url).url, version, path), whose
\* RuntimeError is raised again as the install error.
InstallClone(p) ==
    /\ pc[p] = "clone"
    /\ \E r \in {0} \cup Revs :
          LET app == from_name(registry, AppName)
              res == _git_clone(dir, r)
              call == [last EXCEPT !.url = urldefrag(app.git_url), !.ref = ver[p],
                                   !.resolved = IF res.ok THEN r ELSE 0]
          IN  /\ dir' = res.dir
              /\ last' = IF res.ok THEN Returns(call, <<>>) ELSE Raises(call, "RuntimeError")
    /\ pc' = [pc EXCEPT ![p] = "idle"]
    /\ ver' = [ver EXCEPT ![p] = None]
    /\ UNCHANGED <<presentation, registry>>

Uninstall(p) ==
    /\ pc[p] = "idle"
    /\ InRegistry(registry, AppName)
    /\ LET removed == uninstall(dir)
           call == Call("uninstall", "", {})
       IN  /\ dir' = removed.dir
           /\ last' = IF removed.raised THEN Raises(call, "FileNotFoundError")
                                        ELSE Returns(call, <<>>)
    /\ UNCHANGED <<presentation, registry, pc, ver>>

\* is_compatible(version), called on the entity for one of its releases.
IsCompatible(version) ==
    /\ Ready
    /\ InRegistry(registry, AppName)
    /\ LET app == from_name(registry, AppName)
           call == Call("is_compatible", version, {})
           result == is_compatible(app, version)
       IN  last' = IF result = "ValueError" THEN Raises(call, "ValueError")
                   ELSE Returns(call, <<result>>)
    /\ UNCHANGED <<presentation, registry, dir, pc, ver>>

\* list(_find_incompatibilities_python(requirements)) for the python requirements
\* of a release.
FindIncompatibilitiesPython(version) ==
    /\ Ready
    /\ InRegistry(registry, AppName)
    /\ LET app == from_name(registry, AppName)
           dependencies == Lookup(app.releases, version).dependencies
       IN  \E i \in 1..Len(dependencies) :
              /\ dependencies[i].key = PY
              /\ last' = Returns(Call("find_incompatibilities", version, {}),
                                 _find_incompatibilities_python(dependencies[i].deps))
    /\ UNCHANGED <<presentation, registry, dir, pc, ver>>

(***************************************************************************)
(* The command surface.                                                    *)
(***************************************************************************)
Force == "--force"
IgnoreDependencies == "--ignore-dependencies"
DryRun == "--dry-run"
OnlyCompatible == "--only-compatible"

\* The comprehension without its condition: every version is kept.
CompatibleOf_unchecked(app, versions, skip) == [raised |-> FALSE, versions |-> versions]

\* The versions of a list kept by `if skip or app.is_compatible(version)`; the
\* comprehension raises ValueError as soon as one is_compatible call does.
CompatibleOf(app, versions, skip) ==
    IF ~skip /\ \E i \in 1..Len(versions) : is_compatible(app, versions[i]) = "ValueError"
    THEN [raised |-> TRUE, versions |-> <<>>]
    ELSE LET Keep(version) == skip \/ is_compatible(app, version) = "True"
         IN  [raised |-> FALSE, versions |-> SelectSeq(versions, Keep)]

\* aiidalab search <app-requirement> [--only-compatible]
CmdSearch(app_requirement, opts) ==
    /\ Ready
    /\ LET call == Call("search", app_requirement, opts)
           requirement == Requirement(app_requirement)
       IN  IF ~InRegistry(registry, requirement.name)
           THEN last' = Raises(call, "ClickException")
           ELSE LET app == from_name(registry, requirement.name)
                    found == CompatibleOf(app, find_matching_release(app, requirement.specifier),
                                          OnlyCompatible \notin opts)
                IN  last' = IF found.raised THEN Raises(call, "ValueError")
                            ELSE Returns(call, found.versions)
    /\ UNCHANGED <<presentation, registry, dir, pc, ver>>

\* aiidalab list
CmdList ==
    /\ Ready
    /\ LET call == Call("list", "", {})
       IN  last' =
             IF ~dir.exists THEN Returns(call, <<>>)
             ELSE IF ~InRegistry(registry, AppName) THEN Returns(call, <<"[detached]">>)
             ELSE LET app == from_name(registry, AppName)
                  IN  Returns(call, <<installed_version(app, dir)>>
                                    \o (IF dirty(dir) THEN <<"*">> ELSE <<>>))
    /\ UNCHANGED <<presentation, registry, dir, pc, ver>>

\* The loop of show_dependencies over the dependency map: what it has printed
\* and whether it met an eco-system it does not know.
RECURSIVE ShowItems(_, _)
ShowItems(items, eco_system) ==
    IF items = <<>> THEN [raised |-> FALSE, out |-> <<>>]
    ELSE IF eco_system # {} /\ Head(items).key \notin eco_system
         THEN ShowItems(Tail(items), eco_system)
         ELSE IF Head(items).key = PY
              THEN LET rest == ShowItems(Tail(items), eco_system)
                   IN  [rest EXCEPT !.out = Head(items).deps \o @]
              ELSE [raised |-> TRUE, out |-> <<>>]

\* aiidalab show-dependencies <app-requirement> [-e eco-system]...
CmdShowDependencies(app_requirement, eco_system) ==
    /\ Ready
    /\ LET call == Call("show_dependencies", app_requirement, eco_system)
           requirement == Requirement(app_requirement)
       IN  IF ~InRegistry(registry, requirement.name)
           THEN last' = Raises(call, "ClickException")
           ELSE LET app == from_name(registry, requirement.name)
                    matching_releases == find_matching_release(app, requirement.specifier)
                IN  IF matching_releases = <<>>
                    THEN last' = Raises(call, "ClickException")
                    ELSE LET shown == ShowItems(
                                 Lookup(app.releases, matching_releases[1]).dependencies,
                                 eco_system)
                         IN  last' = IF shown.raised
                                     THEN [Raises(call, "ValueError") EXCEPT !.out = shown.out]
                                     ELSE Returns(call, shown.out)
    /\ UNCHANGED <<presentation, registry, dir, pc, ver>>

\* The install command without the test of dry_run.
install_action_wet(opts, version_to_install, installed) ==
    IF Force \in opts \/ version_to_install # installed THEN "install" ELSE "already"

\* The install command without the comparison with the installed version.
install_action_always(opts, version_to_install, installed) ==
    IF DryRun \in opts THEN "would" ELSE "install"

\* What the install command does with the release it selected: "install" it,
\* say it "would" (dry run), or say it is "already" installed.
install_action(opts, version_to_install, installed) ==
    IF Force \in opts \/ version_to_install # installed
    THEN IF DryRun \in opts THEN "would" ELSE "install"
    ELSE "already"

\* aiidalab install <app-requirement> [-f] [--ignore-dependencies] [-n]
CmdInstall(p, app_requirement, opts) ==
    /\ Ready
    /\ LET call == Call("cmd_install", app_requirement, opts)
           requirement == Requirement(app_requirement)
       IN  IF ~InRegistry(registry, requirement.name)
           THEN /\ last' = Raises(call, "ClickException")
                /\ UNCHANGED <<presentation, registry, dir, pc, ver>>
           ELSE LET app == from_name(registry, requirement.name)
                    matching_releases == find_matching_release(app, requirement.specifier)
                    compatible == CompatibleOf(app, matching_releases, IgnoreDependencies \in opts)
                    compatible_releases == compatible.versions
                IN  IF compatible.raised
                    THEN /\ last' = Raises(call, "ValueError")
                         /\ UNCHANGED <<presentation, registry, dir, pc, ver>>
                    ELSE IF compatible_releases # <<>>
                    THEN LET version_to_install == compatible_releases[1]
                             action == install_action(opts, version_to_install,
                                                      installed_version(app, dir))
                         IN  CASE action = "would" ->
                                    /\ last' = Returns(call, <<"Would install", version_to_install>>)
                                    /\ UNCHANGED <<presentation, registry, dir, pc, ver>>
                               [] action = "install" ->
                                    InstallRemove(p, app, call, version_to_install)
                               [] action = "already" ->
                                    /\ last' = Returns(call, <<"App already installed", version_to_install>>)
                                    /\ UNCHANGED <<presentation, registry, dir, pc, ver>>
                    ELSE IF matching_releases # <<>>
                    THEN /\ last' = Returns(call, <<"none of these are compatible">>)
                         /\ UNCHANGED <<presentation, registry, dir, pc, ver>>
                    ELSE /\ last' = Raises(call, "ClickException")
                         /\ UNCHANGED <<presentation, registry, dir, pc, ver>>

\* detached with `and` for `or`, and with `is not` for `is`.
detached_and(app, d) == dirty(d) /\ installed_version(app, d) = UNKNOWN

detached_is_not(app, d) == dirty(d) \/ installed_version(app, d) # UNKNOWN

\* detached = app.dirty() or app.installed_version() is AppVersion.UNKNOWN
detached(app, d) == dirty(d) \/ installed_version(app, d) = UNKNOWN

\* aiidalab uninstall <app-name> [-f]
CmdUninstall(app_name, opts) ==
    /\ Ready
    /\ LET call == Call("cmd_uninstall", app_name, opts)
       IN  IF ~InRegistry(registry, app_name)
           THEN /\ last' = Raises(call, "ClickException")
                /\ UNCHANGED dir
           ELSE LET app == from_name(registry, app_name)
                IN  IF dir.exists
                    THEN IF Force \in opts \/ ~detached(app, dir)
                         THEN /\ dir' = rmtree(dir).dir
                              /\ last' = Returns(call, <<>>)
                         ELSE /\ last' = Raises(call, "ClickException")
                              /\ UNCHANGED dir
                    ELSE /\ last' = Returns(call, <<>>)
                         /\ UNCHANGED dir
    /\ UNCHANGED <<presentation, registry, pc, ver>>

(***************************************************************************)
(* The environment: people and tools changing the working directory.       *)
(***************************************************************************)
\* An edit of a tracked file: the tree becomes dirty.
ExtModify ==
    /\ Ready /\ dir.exists /\ ~dir.dirty
    /\ dir' = [dir EXCEPT !.dirty = TRUE]
    /\ last' = Call("external", "modify", {})
    /\ UNCHANGED <<presentation, registry, pc, ver>>

\* A commit, checkout or pull: the head moves, uncommitted edits stay.
ExtCheckout(r) ==
    /\ Ready /\ dir.exists /\ dir.rev # r
    /\ dir' = [dir EXCEPT !.rev = r]
    /\ last' = Call("external", "checkout", {})
    /\ UNCHANGED <<presentation, registry, pc, ver>>

\* A clone made by hand into the apps directory.
ExtClone(r) ==
    /\ Ready /\ ~dir.exists
    /\ dir' = Checkout(r)
    /\ last' = Call("external", "clone", {})
    /\ UNCHANGED <<presentation, registry, pc, ver>>

\* The directory removed by hand.
ExtRemove ==
    /\ Ready /\ dir.exists
    /\ dir' = Absent
    /\ last' = Call("external", "remove", {})
    /\ UNCHANGED <<presentation, registry, pc, ver>>

\* The caller takes the value or the exception of the finished call.
Return ==
    /\ \A p \in Procs : pc[p] = "idle"
    /\ last.op # "none"
    /\ last' = NoCall
    /\ UNCHANGED <<presentation, registry, dir, pc, ver>>

InstallOpts == SUBSET {Force, IgnoreDependencies, DryRun}

\* The keys of the releases mapping of the app.
ReleaseKeys ==
    IF InRegistry(registry, AppName)
    THEN {from_name(registry, AppName).releases[i].version :
             i \in 1..Len(from_name(registry, AppName).releases)}
    ELSE {}

\* The versions install() is called with: none, a key of the releases mapping,
\* or a version that is no key of it.
InstallVersions ==
    IF InRegistry(registry, AppName) THEN {None, "1.1.0"} \cup ReleaseKeys ELSE {}

\* The core is single-threaded: every call is made by the one thread, and a call
\* starts when the one before it has returned.
Thread == 1

Next ==
    \/ \E version \in InstallVersions : Ready /\ Install(Thread, version)
    \/ InstallClone(Thread)
    \/ Ready /\ Uninstall(Thread)
    \/ \E app_requirement \in AppRequirements, opts \in InstallOpts :
          CmdInstall(Thread, app_requirement, opts)
    \/ \E opts \in SUBSET {Force} : CmdUninstall(AppName, opts)
    \/ CmdList
    \/ \E app_requirement \in AppRequirements, opts \in SUBSET {OnlyCompatible} :
          CmdSearch(app_requirement, opts)
    \/ \E app_requirement \in AppRequirements, eco_system \in {{}, {PY}, {JUPYTER}} :
          CmdShowDependencies(app_requirement, eco_system)
    \/ ExtModify
    \/ \E r \in Revs : ExtCheckout(r)
    \/ \E r \in Revs : ExtClone(r)
    \/ ExtRemove
    \/ Return
    \/ \E version \in ReleaseKeys : IsCompatible(version)
    \/ \E version \in ReleaseKeys : FindIncompatibilitiesPython(version)

Spec == Init /\ [][Next]_vars

(***************************************************************************)
(* install() called by several processes at once.  Nothing in install()    *)
(* waits for another caller: a call starts whenever its caller is idle,    *)
(* and its removal and its clone are separate steps.                       *)
(***************************************************************************)
InitConcurrent ==
    /\ registry \in ConcurrentRegistries
    /\ dir = Absent
    /\ pc = [p \in Procs |-> "idle"]
    /\ ver = [p \in Procs |-> None]
    /\ last = NoCall
    /\ PresentationIdle

NextConcurrent ==
    \/ \E p \in Procs, version \in InstallVersions : Install(p, version)
    \/ \E p \in Procs : InstallClone(p)
    \/ Return

SpecConcurrent == InitConcurrent /\ [][NextConcurrent]_vars

(***************************************************************************)
(* The dependency checks on their own: one release, every dependency map   *)
(* over the requirement pool, and the calls is_compatible and              *)
(* _find_incompatibilities_python.                                         *)
(***************************************************************************)
InitCompat ==
    /\ registry \in CompatRegistries
    /\ dir = Absent
    /\ pc = [p \in Procs |-> "idle"]
    /\ ver = [p \in Procs |-> None]
    /\ last = NoCall
    /\ PresentationIdle

NextCompat ==
    \/ \E version \in ReleaseKeys : IsCompatible(version)
    \/ \E version \in ReleaseKeys : FindIncompatibilitiesPython(version)
    \/ Return

SpecCompat == InitCompat /\ [][NextCompat]_vars

(***************************************************************************)
(* GitManagedAiidaLabApp and its manager widget (src/aiidalab/app.py).     *)
(* gitapp.state holds the app directory (exists, modified, local_commits,  *)
(* head) and the traits (version, available_versions, installed);          *)
(* gitapp.op, .new, .outcome and .pre record the last event.               *)
(***************************************************************************)
GitRefs == <<"refs/heads/master", "refs/remotes/origin/develop", "refs/tags/v1.0">>

\* The app object built over a directory that does not exist, and over a clone.
NotCloned ==
    [exists |-> FALSE, modified |-> FALSE, local_commits |-> FALSE, head |-> None,
     version |-> None, available_versions |-> <<>>, installed |-> FALSE]

Cloned(ref, modified, local_commits) ==
    [exists |-> TRUE, modified |-> modified, local_commits |-> local_commits, head |-> ref,
     version |-> ref, available_versions |-> GitRefs, installed |-> TRUE]

Event(op, new, outcome, pre, state) ==
    [op |-> op, new |-> new, outcome |-> outcome, pre |-> pre, state |-> state]

found_uncommited_modifications(a) == a.modified

found_local_commits(a) == a.local_commits

\* cannot_modify_app(): the reason not to touch the app, "" when there is none.
\* The app data of the model always names a git url.
cannot_modify_app(a) ==
    IF ~a.exists THEN "not a git repo"
    ELSE IF found_uncommited_modifications(a) THEN "found uncommited modifications"
    ELSE IF found_local_commits(a) THEN "local commits found"
    ELSE IF a.available_versions = <<>> THEN "no branches found"
    ELSE ""

\* _uninstall_app(): RuntimeError, or the directory removed and no versions left.
_uninstall_app(a) ==
    IF cannot_modify_app(a) # "" \/ AppName = "home" \/ found_local_commits(a)
    THEN [raised |-> TRUE, state |-> a]
    ELSE [raised |-> FALSE,
          state |-> [a EXCEPT !.exists = FALSE, !.head = None, !.available_versions = <<>>]]

\* _validate_version(proposal): TRUE when the proposed value is accepted.
_validate_version(a, value) ==
    IF value = None /\ a.exists THEN FALSE
    ELSE IF found_uncommited_modifications(a) THEN FALSE
    ELSE TRUE

\* _observe_version(change), run once the trait holds the new value: uninstall
\* for None, `git checkout` otherwise (a ref name never equals the head sha),
\* then the installed trait.
_observe_version(a, new_version) ==
    IF new_version = None
    THEN LET removed == _uninstall_app(a)
         IN  IF removed.raised THEN [raised |-> TRUE, state |-> removed.state]
             ELSE [raised |-> FALSE, state |-> [removed.state EXCEPT !.installed = FALSE]]
    ELSE [raised |-> FALSE, state |-> [a EXCEPT !.head = new_version, !.installed = TRUE]]

\* app.version = value: the validator, the assignment, and the observer when
\* the value has changed.
set_version(a, value) ==
    IF ~_validate_version(a, value) THEN [outcome |-> "TraitError", state |-> a]
    ELSE IF value = a.version THEN [outcome |-> "ok", state |-> a]
    ELSE LET observed == _observe_version([a EXCEPT !.version = value], value)
         IN  [outcome |-> IF observed.raised THEN "RuntimeError" ELSE "ok",
              state |-> observed.state]

\* The version selector, enabled while the app is installed.
SelectVersion(value) ==
    /\ gitapp.state.installed
    /\ LET result == set_version(gitapp.state, value)
       IN  gitapp' = Event("select_version", value, result.outcome, gitapp.state, result.state)
    /\ UNCHANGED <<core, selector, walk>>

\* The Uninstall button, enabled while the app is installed: app.version = None.
UninstallButton ==
    /\ gitapp.state.installed
    /\ LET result == set_version(gitapp.state, None)
       IN  gitapp' = Event("uninstall_button", None, result.outcome, gitapp.state, result.state)
    /\ UNCHANGED <<core, selector, walk>>

\* The Install button, enabled while the app is not installed: _install_app().
InstallButton ==
    /\ ~gitapp.state.installed /\ ~gitapp.state.exists
    /\ LET cloned == [gitapp.state EXCEPT !.exists = TRUE, !.head = GitRefs[1],
                                          !.available_versions = GitRefs]
           result == set_version(cloned, GitRefs[1])
       IN  gitapp' = Event("install_button", GitRefs[1], result.outcome, gitapp.state,
                           result.state)
    /\ UNCHANGED <<core, selector, walk>>

\* The user edits a tracked file, reverts the edits, commits locally, pushes,
\* or checks out another ref in a terminal.
GitEdit ==
    /\ gitapp.state.exists /\ ~gitapp.state.modified
    /\ gitapp' = Event("edit", None, "ok", gitapp.state,
                        [gitapp.state EXCEPT !.modified = TRUE])
    /\ UNCHANGED <<core, selector, walk>>

GitRevert ==
    /\ gitapp.state.exists /\ gitapp.state.modified
    /\ gitapp' = Event("revert", None, "ok", gitapp.state,
                        [gitapp.state EXCEPT !.modified = FALSE])
    /\ UNCHANGED <<core, selector, walk>>

GitCommit ==
    /\ gitapp.state.exists /\ ~gitapp.state.local_commits
    /\ gitapp' = Event("commit", None, "ok", gitapp.state,
                        [gitapp.state EXCEPT !.local_commits = TRUE])
    /\ UNCHANGED <<core, selector, walk>>

GitPush ==
    /\ gitapp.state.exists /\ gitapp.state.local_commits
    /\ gitapp' = Event("push", None, "ok", gitapp.state,
                        [gitapp.state EXCEPT !.local_commits = FALSE])
    /\ UNCHANGED <<core, selector, walk>>

GitCheckout(ref) ==
    /\ gitapp.state.exists /\ ~gitapp.state.modified /\ gitapp.state.head # ref
    /\ gitapp' = Event("checkout", ref, "ok", gitapp.state,
                        [gitapp.state EXCEPT !.head = ref])
    /\ UNCHANGED <<core, selector, walk>>

\* The app object is built over a missing directory or over a clone in any state.
InitWidget ==
    /\ CoreIdle
    /\ selector = NoSelector /\ walk = NoWalk
    /\ \E a \in {NotCloned} \cup {Cloned(GitRefs[i], m, c) :
                                     i \in 1..Len(GitRefs), m \in BOOLEAN, c \in BOOLEAN} :
          gitapp = Event("none", None, "ok", a, a)

NextWidget ==
    \/ \E i \in 1..Len(GitRefs) : SelectVersion(GitRefs[i])
    \/ UninstallButton
    \/ InstallButton
    \/ GitEdit
    \/ GitRevert
    \/ GitCommit
    \/ GitPush
    \/ \E i \in 1..Len(GitRefs) : GitCheckout(GitRefs[i])

SpecWidget == InitWidget /\ [][NextWidget]_vars

(***************************************************************************)
(* VersionSelectorWidget (src/aiidalab/widgets.py): version_changed sets   *)
(* the info message and starts a thread running _clear_info_after_delay.   *)
(* The threads share info and _clear_timer without a lock, so each         *)
(* statement of a thread is a step of its own.  selector.changed is the    *)
(* time of the most recent version change.                                 *)
(***************************************************************************)
Delay == 3

Changes == 1..MaxChanges

\* version_changed(change): the message is set and the thread is started.
VersionChanged(k) ==
    /\ selector.threads[k] = "new"
    /\ \A j \in Changes : j < k => selector.threads[j] # "new"
    /\ selector' = [selector EXCEPT !.info = "Switched version",
                                    !.changed = selector.now,
                                    !.threads[k] = "start"]
    /\ UNCHANGED <<core, gitapp, walk>>

\* self._clear_timer = time() + delay
SetTimer(k) ==
    /\ selector.threads[k] = "start"
    /\ selector' = [selector EXCEPT !._clear_timer = selector.now + Delay,
                                    !.wake[k] = selector.now + Delay,
                                    !.threads[k] = "sleep"]
    /\ UNCHANGED <<core, gitapp, walk>>

\* sleep(delay) returns, not before the delay has passed.
Wake(k) ==
    /\ selector.threads[k] = "sleep"
    /\ selector.now >= selector.wake[k]
    /\ selector' = [selector EXCEPT !.threads[k] = "check"]
    /\ UNCHANGED <<core, gitapp, walk>>

\* if time() > self._clear_timer
CheckTimer(k) ==
    /\ selector.threads[k] = "check"
    /\ selector' = [selector EXCEPT !.threads[k] =
                        IF selector.now > selector._clear_timer THEN "clear" ELSE "done"]
    /\ UNCHANGED <<core, gitapp, walk>>

\* self.info.value = ''
ClearInfo(k) ==
    /\ selector.threads[k] = "clear"
    /\ selector' = [selector EXCEPT !.info = "", !.threads[k] = "done"]
    /\ UNCHANGED <<core, gitapp, walk>>

\* Time passes.
Tick ==
    /\ selector.now < MaxTime
    /\ selector' = [selector EXCEPT !.now = @ + 1]
    /\ UNCHANGED <<core, gitapp, walk>>

InitTimer ==
    /\ CoreIdle
    /\ gitapp = NoGitApp /\ walk = NoWalk
    /\ selector = [info |-> "", _clear_timer |-> 0, now |-> 0, changed |-> 0,
                   threads |-> [k \in Changes |-> "new"], wake |-> [k \in Changes |-> 0]]

NextTimer ==
    \/ \E k \in Changes : VersionChanged(k)
    \/ \E k \in Changes : SetTimer(k)
    \/ \E k \in Changes : Wake(k)
    \/ \E k \in Changes : CheckTimer(k)
    \/ \E k \in Changes : ClearInfo(k)
    \/ Tick

SpecTimer == InitTimer /\ [][NextTimer]_vars

(***************************************************************************)
(* _find_app_data_files (src/aiidalab/core.py): os.walk over the app       *)
(* directory, top down.  walk.dirs is the list of directories os.walk      *)
(* reports for the root, in the order it reports them; every directory     *)
(* holds the files DirFiles.  A path is the sequence of its components.    *)
(***************************************************************************)
DirNames == {".git", ".github", "src", "docs"}

DirFiles == <<"f.py", ".h.py", "n.bin">>

\* str.startswith('.')
startswith_dot(name) == name \in {".git", ".github", ".h.py"}

\* Path.match(pattern) for the patterns in use: a relative pattern is matched
\* against the last component of the path.
match(file_path, pattern) ==
    LET name == file_path[Len(file_path)]
    IN  CASE pattern = "*.py" -> name \in {"f.py", ".h.py"}
          [] pattern = ".*"   -> startswith_dot(name)

include == <<"*.py">>
exclude == <<".*">>

DirLists ==
    { ds \in UNION {[1..n -> DirNames] : n \in 0..MaxDirs} :
        \A i, j \in 1..Len(ds) : i # j => ds[i] # ds[j] }

\* list.remove(x): the list without its element at position i.
remove(dirs, i) == SubSeq(dirs, 1, i - 1) \o SubSeq(dirs, i + 1, Len(dirs))

\* for child_dir in dirs: if child_dir.startswith('.'): dirs.remove(child_dir)
\* The loop walks the list by position while the list shrinks under it: after
\* a removal the next element has moved to the position just visited.
RECURSIVE prune(_, _)
prune(dirs, i) ==
    IF i > Len(dirs) THEN dirs
    ELSE IF startswith_dot(dirs[i]) THEN prune(remove(dirs, i), i + 1)
    ELSE prune(dirs, i + 1)

\* The files of one directory that the generator yields, as paths under root.
yielded(root, files, include_hidden) ==
    LET paths == [i \in 1..Len(files) |-> root \o <<files[i]>>]
        Keep(file_path) ==
            /\ include_hidden \/ ~startswith_dot(file_path[Len(file_path)])
            /\ \E i \in 1..Len(include) : match(file_path, include[i])
            /\ ~\E e \in 1..Len(exclude) : match(file_path, exclude[e])
    IN  SelectSeq(paths, Keep)

\* The first iteration of os.walk: the root, its directories and its files.
WalkRoot ==
    /\ walk.at = "root"
    /\ walk' = [walk EXCEPT
                  !.at = "dirs",
                  !.todo = IF walk.include_hidden THEN walk.dirs ELSE prune(walk.dirs, 1),
                  !.out = yielded(<<>>, DirFiles, walk.include_hidden)]
    /\ UNCHANGED <<core, gitapp, selector>>

\* A later iteration: the next directory that was left in the list.
WalkDir ==
    /\ walk.at = "dirs" /\ walk.todo # <<>>
    /\ walk' = [walk EXCEPT
                  !.todo = Tail(walk.todo),
                  !.out = @ \o yielded(<<Head(walk.todo)>>, DirFiles, walk.include_hidden)]
    /\ UNCHANGED <<core, gitapp, selector>>

\* os.walk is exhausted.
WalkEnd ==
    /\ walk.at = "dirs" /\ walk.todo = <<>>
    /\ walk' = [walk EXCEPT !.at = "done"]
    /\ UNCHANGED <<core, gitapp, selector>>

InitFiles ==
    /\ CoreIdle
    /\ gitapp = NoGitApp /\ selector = NoSelector
    /\ \E dirs \in DirLists, include_hidden \in BOOLEAN :
          walk = [dirs |-> dirs, include_hidden |-> include_hidden, at |-> "root",
                  todo |-> <<>>, out |-> <<>>]

NextFiles ==
    \/ WalkRoot
    \/ WalkDir
    \/ WalkEnd

SpecFiles == InitFiles /\ [][NextFiles]_vars

(***************************************************************************)
(* Properties.                                                             *)
(***************************************************************************)
Registered == InRegistry(registry, AppName)
App == from_name(registry, AppName)
Releases == App.releases

\* The releases whose stored commit is the revision of the directory d.
ReleasesAt(d) == {i \in 1..Len(Releases) : d.exists /\ Releases[i].commit = d.rev}

InstallOps == {"install", "cmd_install"}
Commands == {"cmd_install", "cmd_uninstall", "list", "search", "show_dependencies"}

\* C1: installed_version() is NOT_INSTALLED exactly when the working directory
\* does not exist, and UNKNOWN or a key of the releases mapping when it exists,
\* in every state install(), uninstall() and outside changes lead to.
C1_InstalledVersionRange ==
    Registered =>
        /\ installed_version(App, dir) = NOT_INSTALLED <=> ~dir.exists
        /\ dir.exists =>
              installed_version(App, dir) \in
                  {UNKNOWN} \cup {Releases[i].version : i \in 1..Len(Releases)}

\* `aiidalab list` has printed UNKNOWN for a directory that outside changes
\* moved to a revision of no release.
C1_Witness ==
    /\ Registered /\ last.op = "list" /\ dir.exists
    /\ Releases # <<>> /\ ReleasesAt(dir) = {}
    /\ last.out[1] = UNKNOWN

\* C2: a dirty working tree makes installed_version() UNKNOWN, also at the
\* revision of a release.
C2_DirtyIsUnknown ==
    Registered /\ dir.exists /\ dir.dirty => installed_version(App, dir) = UNKNOWN

\* C3: on a clean working tree installed_version() is a release whose stored
\* commit is the working revision when there is one, and UNKNOWN otherwise.
C3_CleanTreeVersion ==
    Registered /\ dir.exists /\ ~dir.dirty =>
        IF ReleasesAt(dir) # {}
        THEN \E i \in ReleasesAt(dir) : installed_version(App, dir) = Releases[i].version
        ELSE installed_version(App, dir) = UNKNOWN

\* `aiidalab list` has printed the release of a clean tree.
C3_Witness ==
    /\ Registered /\ last.op = "list" /\ dir.exists /\ ~dir.dirty
    /\ ReleasesAt(dir) # {}
    /\ last.out = <<Releases[CHOOSE i \in ReleasesAt(dir) : TRUE].version>>

\* install(version=V) has returned and the clone resolved V to the commit the
\* registry stores for V.
InstalledAsStored ==
    /\ Registered /\ last.op = "install" /\ last.outcome = "ok"
    /\ \E i \in 1..Len(Releases) : Releases[i].version = last.arg
    /\ last.resolved = Lookup(Releases, last.arg).commit

\* C4 as claimed: after such an install, installed_version() is V, for every
\* release V.
C4_RoundTrip == InstalledAsStored => installed_version(App, dir) = last.arg

\* No release inserted after V stores the commit of V.
LastWithItsCommit(version) ==
    \A i, j \in 1..Len(Releases) :
        Releases[i].version = version /\ Releases[j].commit = Releases[i].commit => j <= i

\* C4: after such an install, installed_version() is V when no release
\* inserted after V stores the same commit, whatever the directory was before.
C4_RoundTripLastInserted ==
    InstalledAsStored /\ LastWithItsCommit(last.arg) => installed_version(App, dir) = last.arg

\* Such an install over a dirty tree, with another release storing the same
\* commit earlier in the mapping.
C4_Witness ==
    /\ InstalledAsStored /\ LastWithItsCommit(last.arg)
    /\ Cardinality(ReleasesAt(dir)) > 1
    /\ last.pre.exists /\ last.pre.dirty

\* C5: when the clone of install() fails, install() raises its error and the
\* working directory does not exist afterwards.
C5_FailedInstallUninstalled ==
    last.op \in InstallOps /\ last.outcome \notin {"ok", "running"} /\ last.ref # "" =>
        /\ last.outcome = "RuntimeError"
        /\ dir = Absent
        /\ installed_version(App, dir) = NOT_INSTALLED

\* A clone has failed where an installation existed before the call.
C5_Witness ==
    /\ last.op = "install" /\ last.outcome = "RuntimeError" /\ last.ref # ""
    /\ last.pre.exists /\ ~dir.exists

\* C6: the clone step of install() starts on an absent directory, and the
\* directory install() leaves is the clean checkout of the one revision cloned.
C6_RemovalBeforeClone ==
    /\ \A p \in Procs : pc[p] = "clone" => dir = Absent
    /\ last.op \in InstallOps /\ last.outcome = "ok" /\ last.ref # "" =>
          dir = Checkout(last.resolved)

\* install() is between its removal and its clone, over a dirty installation.
C6_Witness ==
    /\ \E p \in Procs : pc[p] = "clone"
    /\ last.pre.exists /\ last.pre.dirty /\ ~dir.exists

\* The directory d is dirty or at the revision of no release.
DirtyOrUnknown(d) ==
    d.exists /\ (d.dirty \/ (Registered => \A i \in 1..Len(Releases) : Releases[i].commit # d.rev))

\* C7: `uninstall` without force on a dirty or unknown-version installation
\* ends in an error and leaves the directory as it was.
C7_UninstallRefuses ==
    last.op = "cmd_uninstall" /\ Force \notin last.opts /\ DirtyOrUnknown(last.pre) =>
        last.outcome = "ClickException" /\ dir = last.pre

\* It has refused a dirty tree that is at the revision of a release.
C7_Witness ==
    /\ Registered /\ last.op = "cmd_uninstall" /\ Force \notin last.opts
    /\ last.pre.dirty /\ ReleasesAt(last.pre) # {}
    /\ last.outcome = "ClickException" /\ dir = last.pre

\* C8: `uninstall` of a registered app removes the directory when forced, and
\* when the tree is clean at a release; when it returns without error the app
\* is not installed.
C8_UninstallRemoves ==
    Registered /\ last.op = "cmd_uninstall" =>
        /\ Force \in last.opts \/ ~DirtyOrUnknown(last.pre) =>
              last.outcome = "ok" /\ ~dir.exists
        /\ last.outcome = "ok" => installed_version(App, dir) = NOT_INSTALLED

\* It has removed a dirty tree with force.
C8_Witness ==
    /\ Registered /\ last.op = "cmd_uninstall" /\ Force \in last.opts
    /\ last.pre.exists /\ last.pre.dirty
    /\ last.outcome = "ok" /\ ~dir.exists

\* C9: a command run without force leaves a dirty or unknown-version
\* working directory in place.
C9_NoLossWithoutForce ==
    last.op \in Commands /\ Force \notin last.opts /\ DirtyOrUnknown(last.pre) => dir.exists

\* C10: uninstall() raises nothing and leaves no directory; on an absent
\* directory, which is what a first call leaves, it changes nothing.
C10_UninstallIdempotent ==
    last.op = "uninstall" =>
        /\ last.outcome = "ok"
        /\ dir = Absent
        /\ ~last.pre.exists => dir = last.pre

\* uninstall() has been called on an absent directory.
C10_Witness == last.op = "uninstall" /\ ~last.pre.exists /\ last.outcome = "ok"

\* The elements of a sequence.
Range(s) == {s[i] : i \in 1..Len(s)}

\* C11: find_matching_release(S) holds exactly the release versions whose
\* parsed version is in S, each once, none with a higher parsed version after
\* one with a lower; it is the empty sequence when none matches; `search`
\* prints this sequence.  The releases never change, so the function is
\* examined before each call and after each `search`.
C11_MatchingReleases ==
    Registered /\ last.op \in {"none", "search"} =>
        /\ \A s \in AppRequirements :
              LET S == Requirement(s).specifier
                  found == find_matching_release(App, S)
                  matching == {k \in ReleaseKeys : Contains(S, parse(k))}
              IN  /\ Range(found) = matching
                  /\ Len(found) = Cardinality(matching)
                  /\ \A i, j \in 1..Len(found) :
                        i < j => ~VLess(parse(found[i]), parse(found[j]))
        /\ last.op = "search" /\ OnlyCompatible \notin last.opts =>
              /\ last.outcome = "ok"
              /\ last.out = find_matching_release(App, Requirement(last.arg).specifier)

\* `search` has printed two matching releases that the mapping lists in
\* ascending order, and has left out a release that does not match.
C11_Witness ==
    /\ Registered /\ last.op = "search" /\ last.arg = "app>=1.0,<1.10"
    /\ Len(Releases) = 2 /\ Len(last.out) = 2
    /\ last.out[1] = Releases[2].version
    /\ VLess(parse(last.out[2]), parse(last.out[1]))

\* The version install() is about to clone, or has just cloned.
SelectedVersion == IF pc[Thread] = "clone" THEN ver[Thread] ELSE last.ref

\* An install() call with the version omitted has selected its version.
LatestSelected ==
    /\ Registered /\ last.op = "install" /\ last.arg = None
    /\ pc[Thread] = "clone" \/ last.ref # ""

C13_CloneAtLabel ==
    /\ Registered /\ last.op = "install" /\ last.url # ""
    /\ last.arg = None \/ last.arg \in ReleaseKeys
    => /\ last.url = "https://host/app.git"
       /\ last.ref \in ReleaseKeys
       /\ last.arg # None => last.ref = last.arg

\* C14: install() on an app with no releases ends in the no-releases error
\* and leaves the working directory as it was, with the version omitted or given.
C14_NoReleases ==
    /\ Registered /\ Releases = <<>>
    /\ last.op = "install" /\ last.outcome # "running"
    => last.outcome = "ValueError" /\ dir = last.pre

\* The dependency map of a release, and its python requirements.
Dependencies(version) == Lookup(Releases, version).dependencies

PythonRequirements(version) ==
    LET dependencies == Dependencies(version)
    IN  dependencies[CHOOSE i \in 1..Len(dependencies) : dependencies[i].key = PY].deps

\* Some package of the host inventory has the name of the requirement and a
\* version in its range.
Fulfilled(r) ==
    \E i \in 1..Len(find_installed_packages) :
        fulfills(find_installed_packages[i], Requirement(r))

AllFulfilled(dependencies) ==
    \A i \in 1..Len(dependencies) :
        \A k \in 1..Len(dependencies[i].deps) : Fulfilled(dependencies[i].deps[k])

RecognizedOnly(dependencies) == \A i \in 1..Len(dependencies) : dependencies[i].key = PY

\* C15: when is_compatible(version) returns, it returns true exactly when every
\* requirement of the release, under every key of its dependency map, is
\* fulfilled by a package of the host; it returns whenever every key is known.
C15_CompatibleIffAllFulfilled ==
    Registered /\ last.op = "is_compatible" =>
        /\ last.outcome = "ok" =>
              /\ last.out \in {<<"True">>, <<"False">>}
              /\ last.out = <<"True">> <=> AllFulfilled(Dependencies(last.arg))
        /\ RecognizedOnly(Dependencies(last.arg)) => last.outcome = "ok"

\* is_compatible() has returned false for a release whose first requirement is
\* fulfilled and whose second is not.
C15_Witness ==
    /\ Registered /\ last.op = "is_compatible" /\ last.out = <<"False">>
    /\ RecognizedOnly(Dependencies(last.arg))
    /\ LET requirements == PythonRequirements(last.arg)
       IN  Len(requirements) = 2 /\ Fulfilled(requirements[1]) /\ ~Fulfilled(requirements[2])

\* C16: is_compatible(version) raises ValueError for every release whose
\* dependency map has a key that is not known, wherever the key stands in the map.
C16_UnknownKeyRaises ==
    Registered /\ last.op = "is_compatible" /\ ~RecognizedOnly(Dependencies(last.arg)) =>
        last.outcome = "ValueError"

\* The release is compatible with the host: every key of its dependency map is
\* known and every requirement is fulfilled.
Compatible(version) ==
    RecognizedOnly(Dependencies(version)) /\ AllFulfilled(Dependencies(version))

\* The releases the install command chooses from, for its specifier and options.
Candidates ==
    {k \in ReleaseKeys :
        /\ Contains(Requirement(last.arg).specifier, parse(k))
        /\ IgnoreDependencies \in last.opts \/ Compatible(k)}

\* The install command is installing, or has installed, a release.
CmdInstalls ==
    /\ Registered /\ last.op = "cmd_install"
    /\ pc[Thread] = "clone" \/ last.ref # ""

\* C17: the release the install command installs matches the specifier, is
\* compatible with the host unless --ignore-dependencies is given, and no other
\* such release has a higher parsed version.
C17_InstallsHighestCompatible ==
    CmdInstalls =>
        /\ SelectedVersion \in Candidates
        /\ \A k \in Candidates : ~VLess(parse(SelectedVersion), parse(k))

\* The install command has installed a compatible release while a release with
\* a higher version matches and is not compatible.
C17_Witness ==
    /\ CmdInstalls /\ IgnoreDependencies \notin last.opts /\ last.outcome = "ok"
    /\ \E k \in ReleaseKeys :
          /\ Contains(Requirement(last.arg).specifier, parse(k))
          /\ ~Compatible(k)
          /\ VLess(parse(SelectedVersion), parse(k))

\* C18: the install command with --dry-run leaves the working directory as it
\* was and starts no clone.
C18_DryRunChangesNothing ==
    last.op = "cmd_install" /\ DryRun \in last.opts =>
        dir = last.pre /\ pc[Thread] = "idle"

\* A forced dry run over a modified installation has said what it would install.
C18_Witness ==
    /\ last.op = "cmd_install" /\ {DryRun, Force} \subseteq last.opts
    /\ last.outcome = "ok" /\ Len(last.out) = 2 /\ last.out[1] = "Would install"
    /\ last.pre.exists /\ last.pre.dirty

\* The install command was given a specifier that no release of the app matches.
NoMatch ==
    /\ Registered /\ last.op = "cmd_install"
    /\ \A k \in ReleaseKeys : ~Contains(Requirement(last.arg).specifier, parse(k))

\* C19: the install and uninstall commands end in an error and leave the
\* working directory as it was when the app is not in the registry, and so does
\* the install command when no release matches the specifier.
C19_ErrorsLeaveDirectory ==
    \/ last.op \in {"cmd_install", "cmd_uninstall"} /\ ~Registered
    \/ NoMatch
    => last.outcome = "ClickException" /\ dir = last.pre

\* The install command has refused a specifier that none of the releases of the
\* app matches, over an existing working directory.
C19_Witness ==
    /\ NoMatch /\ Releases # <<>> /\ last.pre.exists
    /\ last.outcome = "ClickException"

\* The positions of the requirements of a list that no host package fulfils.
UnmetAt(requirements) == {i \in 1..Len(requirements) : ~Fulfilled(requirements[i])}

\* C20: _find_incompatibilities_python yields the unfulfilled requirements of
\* its input, one for each position, in the order of the input; for a release
\* with a single requirement that is not fulfilled it yields that requirement
\* and is_compatible is false.
C20_Incompatibilities ==
    /\ Registered /\ last.op = "find_incompatibilities" =>
          LET requirements == PythonRequirements(last.arg)
              unmet == UnmetAt(requirements)
          IN  /\ last.outcome = "ok"
              /\ Len(last.out) = Cardinality(unmet)
              /\ \A i \in unmet :
                    last.out[Cardinality({j \in unmet : j <= i})] = requirements[i]
              /\ Len(requirements) = 1 /\ unmet # {} => last.out = requirements
    /\ Registered /\ last.op = "is_compatible" =>
          \A r \in RequirementPool :
              Dependencies(last.arg) = <<[key |-> PY, deps |-> <<r>>]>> /\ ~Fulfilled(r) =>
                  last.outcome = "ok" /\ last.out = <<"False">>

\* _find_incompatibilities_python has yielded the same unfulfilled requirement
\* twice, for a list that holds it twice.
C20_Witness ==
    /\ Registered /\ last.op = "find_incompatibilities"
    /\ Len(last.out) = 2 /\ last.out[1] = last.out[2]
    /\ last.out = PythonRequirements(last.arg)

\* C21: no step of an operation of the app entity changes the registry record
\* of the app: name, git_url, metadata, categories and releases stay what they
\* were when the entity was built.
C21_RegistryUnchanged == [][registry' = registry]_vars

\* install() with the version omitted has completed over a releases mapping
\* that is not in ascending order of version.
C21_Witness ==
    /\ Registered /\ last.op = "install" /\ last.arg = None /\ last.outcome = "ok"
    /\ Len(Releases) = 2
    /\ VLess(parse(Releases[2].version), parse(Releases[1].version))

\* The position of a key in the releases mapping.
KeyIndex(version) == CHOOSE i \in 1..Len(Releases) : Releases[i].version = version

\* The release inserted last among those that store the revision of directory d.
LastReleaseAt(d) ==
    Releases[CHOOSE i \in ReleasesAt(d) : \A j \in ReleasesAt(d) : j <= i].version

\* C23: with two releases storing the same revision and the clean working tree
\* at that revision, installed_version() is the release inserted last of the
\* two, and `list` prints it.
C23_LastInsertedWins ==
    /\ Registered /\ dir.exists /\ ~dir.dirty
    /\ last.op \in {"none", "list"}
    /\ Cardinality(ReleasesAt(dir)) >= 2
    => /\ installed_version(App, dir) = LastReleaseAt(dir)
       /\ last.op = "list" => last.out = <<LastReleaseAt(dir)>>

\* `list` has printed the second of two releases that store the revision of the
\* clean working tree.
C23_Witness ==
    /\ Registered /\ last.op = "list" /\ dir.exists /\ ~dir.dirty
    /\ Len(Releases) = 2 /\ ReleasesAt(dir) = {1, 2}
    /\ last.out = <<Releases[2].version>>

\* C24: in the result of find_matching_release, labels that parse to equal
\* versions stand in the order of their insertion in the releases mapping.
C24_TiesInInsertionOrder ==
    Registered /\ last.op \in {"none", "search"} =>
        /\ \A s \in AppRequirements :
              LET found == find_matching_release(App, Requirement(s).specifier)
              IN  \A i, j \in 1..Len(found) :
                      i < j /\ VEq(parse(found[i]), parse(found[j])) =>
                          KeyIndex(found[i]) < KeyIndex(found[j])
        /\ last.op = "search" /\ last.outcome = "ok" =>
              \A i, j \in 1..Len(last.out) :
                  i < j /\ VEq(parse(last.out[i]), parse(last.out[j])) =>
                      KeyIndex(last.out[i]) < KeyIndex(last.out[j])

\* `search` has printed two labels of equal version in the order of the mapping.
C24_Witness ==
    /\ Registered /\ last.op = "search" /\ last.outcome = "ok"
    /\ Len(last.out) = 2 /\ last.out[1] # last.out[2]
    /\ VEq(parse(last.out[1]), parse(last.out[2]))
    /\ KeyIndex(last.out[1]) = 1

\* The release the install command selects: the first compatible one of the
\* matching releases, None when there is none or the selection raises.
Selection ==
    LET matching == find_matching_release(App, Requirement(last.arg).specifier)
        compatible == CompatibleOf(App, matching, IgnoreDependencies \in last.opts)
    IN  IF ~compatible.raised /\ compatible.versions # <<>>
        THEN compatible.versions[1] ELSE None

\* The install command selected the release that installed_version() named.
SelectedIsInstalled ==
    /\ Registered /\ last.op = "cmd_install"
    /\ Selection # None /\ Selection = installed_version(App, last.pre)

\* C25: when the install command selects the release that is installed, then
\* without force it leaves the working directory as it was and says the app is
\* already installed, and with force (and no dry run) it installs again.
C25_AlreadyInstalled ==
    SelectedIsInstalled =>
        /\ Force \notin last.opts =>
              /\ dir = last.pre /\ pc[Thread] = "idle"
              /\ last.outcome = "ok"
              /\ last.out = <<"App already installed", Selection>>
        /\ Force \in last.opts /\ DryRun \notin last.opts =>
              /\ pc[Thread] = "clone" \/ last.ref = Selection
              /\ pc[Thread] = "clone" => ~dir.exists

\* The install command without force has found its release installed in a
\* modified working tree.
C25_Witness ==
    /\ SelectedIsInstalled /\ Force \notin last.opts
    /\ last.pre.dirty /\ last.out = <<"App already installed", Selection>>

\* C22: install() takes no lock.  A caller can be about to clone while the
\* directory it removed has been populated again by the clone of another
\* caller; its own clone then fails and leaves that directory as it is.
C22_SecondCloneRefused ==
    [][\A p \in Procs :
          pc[p] = "clone" /\ dir.exists /\ pc'[p] = "idle" =>
              dir' = dir /\ last'.outcome = "RuntimeError"]_vars

\* Two callers have removed the directory before either cloned, the clone of
\* one has populated it, and the other is about to clone into it.
C22_Witness ==
    \E p, q \in Procs :
        /\ p # q /\ pc[p] = "clone" /\ pc[q] = "idle"
        /\ dir.exists /\ ~dir.dirty
        /\ last.op = "install" /\ last.outcome = "ok" /\ last.resolved = dir.rev

C27_ClearedAfterDelay ==
    [][selector.info # "" /\ selector'.info = "" =>
          selector.now >= selector.changed + Delay]_vars

\* C28: with include_hidden false, _find_app_data_files yields no file that
\* lies under a hidden directory, whatever the tree.
C28_NoFileUnderHiddenDir ==
    ~walk.include_hidden =>
        \A k \in 1..Len(walk.out) :
            \A c \in 1..(Len(walk.out[k]) - 1) : ~startswith_dot(walk.out[k][c])

====
